---- MODULE Spec2Model ----
(***************************************************************************)
(* Model of transactional_datasets/Midterm-Part4-Run.py: an interactive    *)
(* script that lists the CSV datasets of a directory, asks for a dataset   *)
(* number, a minimum support and a minimum confidence, one-hot encodes the *)
(* transactions, runs Apriori and FP-Growth, prints and saves the results. *)
(*                                                                         *)
(* Strings are sequences of one-character strings, so that endswith,       *)
(* replace, split, int() and float() are computed, not assumed.            *)
(***************************************************************************)
EXTENDS Integers, Sequences, FiniteSets

VARIABLES
    pc,                 \* position of the script
    fs_input_exists,    \* environment: the 'transactions' directory exists
    fs_listing,         \* environment: os.listdir(input_dir), in its order
    fs_results_dir,     \* the 'results' directory exists
    created_results,    \* this run made the 'results' directory itself
    written,            \* names of the files written under 'results'
    csv_reads,          \* names of the dataset files read
    out,                \* standard output, a sequence of printed events
    prompts,            \* number of input() calls issued
    retries,            \* number of rejected entries so far
    exit_status,        \* -1 while running, else the process exit status
    available_datasets, choice, selected_dataset,
    min_support, min_confidence,
    transactions, df_onehot,
    apriori_itemsets, apriori_rules, fpg_itemsets, fpg_rules,
    top_n,              \* the top_n argument of display_top_itemsets
    prefix, final_rules

vars == <<pc, fs_input_exists, fs_listing, fs_results_dir, created_results,
          written, csv_reads, out, prompts, retries, exit_status,
          available_datasets, choice, selected_dataset, min_support,
          min_confidence, transactions, df_onehot, apriori_itemsets,
          apriori_rules, fpg_itemsets, fpg_rules, top_n, prefix, final_rules>>

(***************************************************************************)
(* Bounds of the model.                                                    *)
(***************************************************************************)
\* Rejected entries a run may see over the three prompts together.
MaxRetries == 2

(***************************************************************************)
(* Strings.                                                                *)
(***************************************************************************)
Digits == {"0", "1", "2", "3", "4", "5", "6", "7", "8", "9"}

DigitVal(c) ==
    CASE c = "0" -> 0 [] c = "1" -> 1 [] c = "2" -> 2 [] c = "3" -> 3
      [] c = "4" -> 4 [] c = "5" -> 5 [] c = "6" -> 6 [] c = "7" -> 7
      [] c = "8" -> 8 [] c = "9" -> 9

DotCsv == <<".", "c", "s", "v">>

\* s[from..] has p as a prefix
StartsWithAt(s, p, from) ==
    /\ from + Len(p) - 1 <= Len(s)
    /\ \A i \in 1..Len(p) : s[from + i - 1] = p[i]

\* str.endswith
EndsWith(s, suffix) ==
    /\ Len(suffix) <= Len(s)
    /\ StartsWithAt(s, suffix, Len(s) - Len(suffix) + 1)

RECURSIVE ReplaceFrom(_, _, _, _)
ReplaceFrom(s, old, new, i) ==
    IF i > Len(s) THEN <<>>
    ELSE IF StartsWithAt(s, old, i)
         THEN new \o ReplaceFrom(s, old, new, i + Len(old))
         ELSE <<s[i]>> \o ReplaceFrom(s, old, new, i + 1)

\* str.replace(old, new) for a non-empty old: every non-overlapping
\* occurrence, scanning from the left
Replace(s, old, new) == ReplaceFrom(s, old, new, 1)

\* the filename minus one trailing suffix
StripSuffix(s, suffix) ==
    IF EndsWith(s, suffix) THEN SubSeq(s, 1, Len(s) - Len(suffix)) ELSE s

RECURSIVE SplitFrom(_, _, _, _)
SplitFrom(s, sep, i, cur) ==
    IF i > Len(s) THEN <<cur>>
    ELSE IF StartsWithAt(s, sep, i)
         THEN <<cur>> \o SplitFrom(s, sep, i + Len(sep), <<>>)
         ELSE SplitFrom(s, sep, i + 1, Append(cur, s[i]))

\* str.split(sep): always at least one piece, possibly the empty string
Split(s, sep) == SplitFrom(s, sep, 1, <<>>)

RECURSIVE StripLeft(_)
StripLeft(s) ==
    IF s # <<>> /\ s[1] = " " THEN StripLeft(Tail(s)) ELSE s

RECURSIVE StripRight(_)
StripRight(s) ==
    IF s # <<>> /\ s[Len(s)] = " "
    THEN StripRight(SubSeq(s, 1, Len(s) - 1)) ELSE s

Strip(s) == StripRight(StripLeft(s))

RECURSIVE DigitsVal(_)
DigitsVal(s) ==
    IF s = <<>> THEN 0
    ELSE 10 * DigitsVal(SubSeq(s, 1, Len(s) - 1)) + DigitVal(s[Len(s)])

AllDigits(s) == \A i \in 1..Len(s) : s[i] \in Digits

HasSign(s) == s # <<>> /\ s[1] \in {"+", "-"}

Unsigned(s) == IF HasSign(s) THEN Tail(s) ELSE s

SignOf(s) == IF s # <<>> /\ s[1] = "-" THEN -1 ELSE 1

(***************************************************************************)
(* int(entry): surrounding blanks are ignored, then an optional sign and   *)
(* at least one decimal digit; anything else raises ValueError.            *)
(***************************************************************************)
IntParses(entry) ==
    LET u == Unsigned(Strip(entry)) IN u # <<>> /\ AllDigits(u)

IntOf(entry) ==
    LET t == Strip(entry) IN SignOf(t) * DigitsVal(Unsigned(t))

(***************************************************************************)
(* float(entry), for plain decimal notation: blanks, optional sign, digits *)
(* with at most one point and at least one digit.  The value is kept as    *)
(* the exact decimal <<numerator, denominator>> in lowest power of ten;    *)
(* 0 and 1 are floats and rounding to a float is monotonic, so the tests   *)
(* 0 < v and v <= 1 give the same answer on the decimal as on the float    *)
(* for every entry of the model.                                           *)
(***************************************************************************)
PointAt(u) ==
    IF \E i \in 1..Len(u) : u[i] = "."
    THEN CHOOSE i \in 1..Len(u) : u[i] = "." /\ \A j \in 1..(i - 1) : u[j] # "."
    ELSE 0

IntPart(u) == IF PointAt(u) = 0 THEN u ELSE SubSeq(u, 1, PointAt(u) - 1)

FracPart(u) == IF PointAt(u) = 0 THEN <<>> ELSE SubSeq(u, PointAt(u) + 1, Len(u))

FloatParses(entry) ==
    LET u == Unsigned(Strip(entry)) IN
    /\ AllDigits(IntPart(u))
    /\ AllDigits(FracPart(u))
    /\ Len(IntPart(u)) + Len(FracPart(u)) >= 1

RECURSIVE Pow10(_)
Pow10(n) == IF n = 0 THEN 1 ELSE 10 * Pow10(n - 1)

RECURSIVE Lowest(_)
Lowest(q) ==
    IF q[2] > 1 /\ q[1] % 10 = 0 THEN Lowest(<<q[1] \div 10, q[2] \div 10>>)
    ELSE q

FloatOf(entry) ==
    LET t == Strip(entry)
        u == Unsigned(t)
        f == FracPart(u)
    IN  Lowest(<<SignOf(t) * (DigitsVal(IntPart(u)) * Pow10(Len(f)) + DigitsVal(f)),
                 Pow10(Len(f))>>)

(***************************************************************************)
(* IEEE-754 binary64 arithmetic, as far as line 121 needs it.  A positive  *)
(* float is [m, e]: m its MantissaBits significand bits, most significant  *)
(* first, e the exponent of the last bit, so that its value is m * 2^e.    *)
(* Results are rounded to nearest, ties to even.                           *)
(***************************************************************************)
MantissaBits == 53

ChunkBits == 18

\* the number whose bits are b[lo..hi]
RECURSIVE BitsValIn(_, _, _)
BitsValIn(b, lo, hi) ==
    IF hi < lo THEN 0 ELSE 2 * BitsValIn(b, lo, hi - 1) + b[hi]

BitsVal(b) == BitsValIn(b, 1, Len(b))

\* the w low bits of v
BitsOf(v, w) == [i \in 1..w |-> (v \div 2^(w - i)) % 2]

\* b without its leading zeros
Significant(b) ==
    IF \A i \in 1..Len(b) : b[i] = 0 THEN <<>>
    ELSE SubSeq(b, CHOOSE i \in 1..Len(b) : b[i] = 1 /\ \A j \in 1..(i - 1) : b[j] = 0,
                Len(b))

\* bits + 1, one bit longer when every bit was 1
Inc(b) ==
    IF \A i \in 1..Len(b) : b[i] = 1 THEN <<1>> \o [i \in 1..Len(b) |-> 0]
    ELSE LET z == CHOOSE i \in 1..Len(b) : b[i] = 0 /\ \A j \in (i + 1)..Len(b) : b[j] = 1
         IN  [i \in 1..Len(b) |-> IF i < z THEN b[i] ELSE IF i = z THEN 1 ELSE 0]

\* the bits kept, rounded up or not, as a float whose last bit weighs 2^e
Rounded(kept, up, e) ==
    LET r == IF up THEN Inc(kept) ELSE kept IN
    IF Len(r) > Len(kept)
    THEN [m |-> SubSeq(r, 1, Len(kept)), e |-> e + 1]
    ELSE [m |-> r, e |-> e]

\* scale num/den into [1, 2): <<num, den, a>> with num/den * 2^a the quotient
RECURSIVE Norm(_, _, _)
Norm(num, den, a) ==
    IF num < den THEN Norm(2 * num, den, a - 1)
    ELSE IF num >= 2 * den THEN Norm(num, 2 * den, a + 1)
    ELSE <<num, den, a>>

\* long division of rem by den in base 2^ChunkBits: the next left bits of
\* the quotient behind the binary point, and the remainder after them
RECURSIVE QuotChunks(_, _, _)
QuotChunks(rem, den, left) ==
    IF left = 0 THEN [bits |-> <<>>, rem |-> rem]
    ELSE LET w    == IF left < ChunkBits THEN left ELSE ChunkBits
             t    == rem * 2^w
             rest == QuotChunks(t % den, den, left - w)
         IN  [bits |-> BitsOf(t \div den, w) \o rest.bits, rem |-> rest.rem]

\* for den <= num < 2 * den, den below 2^12: the first cnt bits of num / den
\* and twice the remainder left after them
QuotBits(num, den, cnt) ==
    LET f == QuotChunks(num % den, den, cnt - 1)
    IN  [bits |-> <<num \div den>> \o f.bits, r2 |-> 2 * f.rem]

\* the float k / n of two positive integers (numpy's sum / rows)
FDiv(k, n) ==
    LET nd == Norm(k, n, 0)
        q  == QuotBits(nd[1], nd[2], MantissaBits)
        up == q.r2 > nd[2] \/ (q.r2 = nd[2] /\ q.bits[MantissaBits] = 1)
    IN  Rounded(q.bits, up, nd[3] - (MantissaBits - 1))

\* chunk c of b, counted from the least significant end, as a number
Chunk(b, c) ==
    BitsValIn(b, Len(b) - c * ChunkBits + 1, Len(b) - (c - 1) * ChunkBits)

\* schoolbook multiplication of the chunks of b by n, least significant first
RECURSIVE MulChunks(_, _, _, _)
MulChunks(b, n, c, carry) ==
    IF c * ChunkBits > Len(b) THEN BitsOf(carry, ChunkBits)
    ELSE LET t == Chunk(b, c) * n + carry
         IN  MulChunks(b, n, c + 1, t \div 2^ChunkBits) \o BitsOf(t % 2^ChunkBits, ChunkBits)

\* bits * n for a positive integer n below 2^12, exactly
MulBits(b, n) ==
    LET pad == (ChunkBits - (Len(b) % ChunkBits)) % ChunkBits
    IN  Significant(MulChunks([i \in 1..pad |-> 0] \o b, n, 1, 0))

\* the float x * n, n a positive integer that is itself a float
FMul(x, n) ==
    LET p      == MulBits(x.m, n)
        extra  == Len(p) - MantissaBits
        kept   == SubSeq(p, 1, MantissaBits)
        guard  == extra > 0 /\ p[MantissaBits + 1] = 1
        sticky == \E i \in (MantissaBits + 2)..Len(p) : p[i] = 1
        up     == guard /\ (sticky \/ kept[MantissaBits] = 1)
    IN  Rounded(kept, up, x.e + extra)

\* the bits of x in front of the binary point
WholeBits(x) ==
    IF x.e >= 0 THEN x.m \o [i \in 1..x.e |-> 0]
    ELSE IF Len(x.m) + x.e <= 0 THEN <<>>
    ELSE SubSeq(x.m, 1, Len(x.m) + x.e)

\* the bits of x behind the binary point
FracBits(x) ==
    IF x.e >= 0 THEN <<>>
    ELSE IF Len(x.m) + x.e <= 0 THEN [i \in 1..(-x.e - Len(x.m)) |-> 0] \o x.m
    ELSE SubSeq(x.m, Len(x.m) + x.e + 1, Len(x.m))

\* int(x): truncation toward zero
Trunc(x) == BitsVal(WholeBits(x))

\* round(x): to the nearest integer, ties to the even one
Round(x) ==
    LET w == BitsVal(WholeBits(x))
        f == FracBits(x)
        half == f # <<>> /\ f[1] = 1
        more == \E i \in 2..Len(f) : f[i] = 1
    IN  IF half /\ (more \/ w % 2 = 1) THEN w + 1 ELSE w

(***************************************************************************)
(* Ordering of strings: sorted() compares code points, left to right.      *)
(***************************************************************************)
Ord(c) ==
    CASE c = " " -> 32 [] c = "," -> 44 [] c = "A" -> 65 [] c = "B" -> 66
      [] c = "C" -> 67

RECURSIVE StrLess(_, _)
StrLess(a, b) ==
    IF a = <<>> THEN b # <<>>
    ELSE IF b = <<>> THEN FALSE
    ELSE IF a[1] = b[1] THEN StrLess(Tail(a), Tail(b))
    ELSE Ord(a[1]) < Ord(b[1])

\* sorted(S) for a finite set of strings
RECURSIVE Sorted(_)
Sorted(S) ==
    IF S = {} THEN <<>>
    ELSE LET least == CHOOSE x \in S : \A y \in S : x = y \/ StrLess(x, y)
         IN  <<least>> \o Sorted(S \ {least})

SeqToSet(q) == {q[i] : i \in 1..Len(q)}

(***************************************************************************)
(* transactions_to_df.  A table is [columns, rows]: the column labels in   *)
(* order and one row of cells per index, each row as long as columns.      *)
(***************************************************************************)
Reverse(q) == [i \in 1..Len(q) |-> q[Len(q) + 1 - i]]

\* faulty variant of the vocabulary: columns not in sorted order
AllItems_Unsorted(txs) == Reverse(Sorted(UNION SeqToSet(txs)))

\* sorted(set(item for t in transactions for item in t))
AllItems(txs) == Sorted(UNION SeqToSet(txs))

\* pd.DataFrame(0, index=range(n), columns=cols)
ZeroFrame(n, cols) ==
    [columns |-> cols, rows |-> [i \in 1..n |-> [j \in 1..Len(cols) |-> 0]]]

\* frame.loc[i, list(t)] = 1
SetLoc(frame, i, t) ==
    [frame EXCEPT !.rows[i] =
        [j \in 1..Len(frame.columns) |->
            IF frame.columns[j] \in t THEN 1 ELSE frame.rows[i][j]]]

RECURSIVE FillRows(_, _, _)
FillRows(frame, txs, i) ==
    IF i > Len(txs) THEN frame
    ELSE FillRows(SetLoc(frame, i, txs[i]), txs, i + 1)

transactions_to_df(txs) ==
    FillRows(ZeroFrame(Len(txs), AllItems(txs)), txs, 1)

(***************************************************************************)
(* The mining library.  apriori and fpgrowth return the itemsets whose     *)
(* support, the fraction of rows holding every item of the set, is at      *)
(* least min_support; a support is the float count / rows, kept as the     *)
(* pair <<count, rows>>.  association_rules derives, from every frequent   *)
(* itemset and every split of it, the rule antecedents -> consequents      *)
(* whose confidence support(itemset) / support(antecedents) is at least    *)
(* min_threshold, and raises ValueError on an empty itemset table.         *)
(* The order of the returned rows is the library's: fixed, not specified.  *)
(***************************************************************************)
ColumnOf(df, item) == CHOOSE j \in 1..Len(df.columns) : df.columns[j] = item

SupportCount(df, S) ==
    Cardinality({i \in 1..Len(df.rows) :
                    \A item \in S : df.rows[i][ColumnOf(df, item)] = 1})

\* q1 >= q2 for fractions with positive denominators
FracGeq(q1, q2) == q1[1] * q2[2] >= q2[1] * q1[2]

FrequentSets(df, minsup) ==
    {S \in (SUBSET SeqToSet(df.columns)) \ {{}} :
        FracGeq(<<SupportCount(df, S), Len(df.rows)>>, minsup)}

\* some fixed enumeration of a finite set
AnyOrder(S) ==
    CHOOSE q \in [1..Cardinality(S) -> S] : \A x \in S : \E i \in DOMAIN q : q[i] = x

FrequentItemsets(df, minsup) ==
    LET F == AnyOrder(FrequentSets(df, minsup)) IN
    [i \in 1..Len(F) |->
        [support |-> <<SupportCount(df, F[i]), Len(df.rows)>>, itemsets |-> F[i]]]

apriori(df, minsup) == FrequentItemsets(df, minsup)

fpgrowth(df, minsup) == FrequentItemsets(df, minsup)

SupportIn(itemsets_df, S) ==
    (CHOOSE r \in SeqToSet(itemsets_df) : r.itemsets = S).support

RuleSet(itemsets_df, minconf) ==
    {[antecedents |-> A, consequents |-> r.itemsets \ A,
      confidence |-> <<r.support[1], SupportIn(itemsets_df, A)[1]>>] :
        <<r, A>> \in {<<r, A>> \in SeqToSet(itemsets_df) \X
                                   (SUBSET (UNION {x.itemsets : x \in SeqToSet(itemsets_df)})) :
            /\ A # {} /\ A \subseteq r.itemsets /\ A # r.itemsets
            /\ FracGeq(<<r.support[1], SupportIn(itemsets_df, A)[1]>>, minconf)}}

RulesRaise(itemsets_df) == itemsets_df = <<>>

association_rules(itemsets_df, minconf) == AnyOrder(RuleSet(itemsets_df, minconf))

(***************************************************************************)
(* Reporting.  Printed lines are events <<tag, ...>> appended to out.      *)
(***************************************************************************)
DefaultTopN == 10

Min(a, b) == IF a < b THEN a ELSE b

\* itemsets_df.head(n)
Head_(q, n) == SubSeq(q, 1, Min(n, Len(q)))

\* int(row["support"] * len(df_onehot))
Count(support, nrows) == Trunc(FMul(FDiv(support[1], support[2]), nrows))

display_top_itemsets(itemsets_df, table_name, n, nrows) ==
    LET shown == Head_(itemsets_df, n) IN
    <<<<"table", table_name>>, <<"header">>>> \o
    [i \in 1..Len(shown) |->
        <<"itemset", shown[i].itemsets, Count(shown[i].support, nrows)>>]

display_rules(rules_df) ==
    IF rules_df = <<>>
    THEN <<<<"final_rules">>, <<"no_rules_for_thresholds">>>>
    ELSE <<<<"final_rules">>>> \o
         [i \in 1..Len(rules_df) |->
            <<"rule", i, rules_df[i].antecedents, rules_df[i].consequents,
              rules_df[i].confidence>>]

(***************************************************************************)
(* Merging.                                                                *)
(***************************************************************************)
RuleKey(r) == <<r.antecedents, r.consequents>>

\* DataFrame.drop_duplicates(subset=[antecedents, consequents]): a row is
\* dropped when an earlier row carries the same pair
RECURSIVE DropDuplicates(_, _)
DropDuplicates(q, seen) ==
    IF q = <<>> THEN <<>>
    ELSE IF RuleKey(q[1]) \in seen THEN DropDuplicates(Tail(q), seen)
    ELSE <<q[1]>> \o DropDuplicates(Tail(q), seen \cup {RuleKey(q[1])})

\* faulty variant of the merge: FP-Growth rules concatenated first
MergeRules_FpGrowthFirst(a_rules, f_rules) == DropDuplicates(f_rules \o a_rules, {})

MergeRules(a_rules, f_rules) == DropDuplicates(a_rules \o f_rules, {})

PrintMerged(rules) ==
    IF rules = <<>> THEN <<<<"no_rules_with_thresholds">>>>
    ELSE [i \in 1..Len(rules) |->
            <<"merged_rule", i, rules[i].antecedents, rules[i].consequents,
              rules[i].confidence>>]

(***************************************************************************)
(* The environment of a run: directory contents, keyboard entries, and     *)
(* the content of the dataset that is read.                                *)
(***************************************************************************)
InputDir == "transactions"

OutputDir == "results"

FileA == <<"a", ".", "c", "s", "v">>

FileAA == <<"a", ".", "c", "s", "v", ".", "c", "s", "v">>

FileN == <<"n", ".", "t", "x", "t">>

FileUniverse == {FileA, FileAA, FileN}

\* every listing of every subset of the universe, in every order
Listings ==
    UNION {{q \in [1..n -> FileUniverse] :
                \A i, j \in 1..n : q[i] = q[j] => i = j} : n \in 0..Cardinality(FileUniverse)}

\* what the user may type at a prompt
Entries ==
    { <<>>, <<"x">>, <<"0">>, <<"1">>, <<"2">>, <<"3">>, <<"-", "1">>,
      <<" ", "2">>, <<"0", ".", "5">>, <<"1", ".", "0">>, <<"1", ".", "5">> }

CellA == <<"A">>

CellB == <<"B">>

CellAB == <<"A", ",", " ", "B">>

\* the ItemsPurchased column of a well-formed dataset
Columns == { <<CellAB, CellA>>, <<CellA, CellB>> }

(***************************************************************************)
(* The script, section by section.                                         *)
(***************************************************************************)
Emit(lines) == out' = out \o lines

Exit(status) == /\ exit_status' = status
                /\ pc' = "exited"

\* faulty variant of the folder setup: the results directory is not made
FolderSetup_NoMakedirs ==
    /\ pc = "start"
    /\ created_results' = FALSE
    /\ pc' = "check_input"
    /\ UNCHANGED <<fs_input_exists, fs_listing, fs_results_dir, written, csv_reads,
                   out, prompts, retries, exit_status, available_datasets, choice,
                   selected_dataset, min_support, min_confidence, transactions,
                   df_onehot, apriori_itemsets, apriori_rules, fpg_itemsets,
                   fpg_rules, top_n, prefix, final_rules>>

\* lines 16-21: resolve the directories, os.makedirs(output_dir, exist_ok=True)
FolderSetup ==
    /\ pc = "start"
    /\ fs_results_dir' = TRUE
    /\ created_results' = ~fs_results_dir
    /\ pc' = "check_input"
    /\ UNCHANGED <<fs_input_exists, fs_listing, written, csv_reads, out, prompts,
                   retries, exit_status, available_datasets, choice,
                   selected_dataset, min_support, min_confidence, transactions,
                   df_onehot, apriori_itemsets, apriori_rules, fpg_itemsets,
                   fpg_rules, top_n, prefix, final_rules>>

\* faulty variant of the directory check: a missing directory is ignored
CheckInputDir_Continue ==
    /\ pc = "check_input"
    /\ pc' = "list"
    /\ UNCHANGED <<fs_input_exists, fs_listing, fs_results_dir, created_results,
                   written, csv_reads, out, prompts, retries, exit_status,
                   available_datasets, choice, selected_dataset, min_support,
                   min_confidence, transactions, df_onehot, apriori_itemsets,
                   apriori_rules, fpg_itemsets, fpg_rules, top_n, prefix,
                   final_rules>>

\* lines 23-26
CheckInputDir ==
    /\ pc = "check_input"
    /\ IF ~fs_input_exists
       THEN /\ Emit(<<<<"error_not_found", InputDir>>, <<"hint_same_directory">>>>)
            /\ Exit(1)
       ELSE /\ pc' = "list"
            /\ UNCHANGED <<out, exit_status>>
    /\ UNCHANGED <<fs_input_exists, fs_listing, fs_results_dir, created_results,
                   written, csv_reads, prompts, retries, available_datasets,
                   choice, selected_dataset, min_support, min_confidence,
                   transactions, df_onehot, apriori_itemsets, apriori_rules,
                   fpg_itemsets, fpg_rules, top_n, prefix, final_rules>>

\* faulty variant of the listing: every directory entry is a dataset
CsvFiles_Unfiltered(listing) == listing

\* [f for f in os.listdir(input_dir) if f.endswith(".csv")]
CsvFiles(listing) == SelectSeq(listing, LAMBDA f : EndsWith(f, DotCsv))

\* lines 40-48
ListDatasets ==
    /\ pc = "list"
    /\ available_datasets' = CsvFiles(fs_listing)
    /\ IF available_datasets' = <<>>
       THEN /\ Emit(<<<<"no_csv_datasets">>>>)
            /\ Exit(1)
       ELSE /\ Emit(<<<<"available_header">>>> \o
                     [i \in 1..Len(available_datasets') |->
                        <<"dataset", i, available_datasets'[i]>>])
            /\ pc' = "select"
            /\ UNCHANGED exit_status
    /\ UNCHANGED <<fs_input_exists, fs_listing, fs_results_dir, created_results,
                   written, csv_reads, prompts, retries, choice,
                   selected_dataset, min_support, min_confidence, transactions,
                   df_onehot, apriori_itemsets, apriori_rules, fpg_itemsets,
                   fpg_rules, top_n, prefix, final_rules>>

\* faulty variant of the range test: the last dataset cannot be chosen
ChoiceInRange_Exclusive(c, n) == 1 <= c /\ c < n

\* the test of line 57
ChoiceInRange(c, n) == 1 <= c /\ c <= n

\* lines 54-63, one pass of the loop on one entry
SelectDataset ==
    /\ pc = "select"
    /\ \E entry \in Entries :
        /\ prompts' = prompts + 1
        /\ IF IntParses(entry)
           THEN /\ choice' = IntOf(entry)
                /\ IF ChoiceInRange(choice', Len(available_datasets))
                   THEN /\ selected_dataset' = available_datasets[choice']
                        /\ pc' = "support"
                        /\ Emit(<<<<"prompt_dataset">>>>)
                        /\ UNCHANGED retries
                   ELSE /\ retries < MaxRetries
                        /\ retries' = retries + 1
                        /\ Emit(<<<<"prompt_dataset">>,
                                   <<"enter_between_1_and", Len(available_datasets)>>>>)
                        /\ UNCHANGED <<pc, selected_dataset>>
           ELSE /\ retries < MaxRetries
                /\ retries' = retries + 1
                /\ Emit(<<<<"prompt_dataset">>, <<"invalid_enter_number">>>>)
                /\ UNCHANGED <<pc, choice, selected_dataset>>
    /\ UNCHANGED <<fs_input_exists, fs_listing, fs_results_dir, created_results,
                   written, csv_reads, exit_status, available_datasets,
                   min_support, min_confidence, transactions, df_onehot,
                   apriori_itemsets, apriori_rules, fpg_itemsets, fpg_rules,
                   top_n, prefix, final_rules>>

\* the test of lines 71 and 81
\* faulty variant of the threshold test: 0 accepted
ThresholdOk_ZeroAllowed(v) == 0 <= v[1] /\ v[1] <= v[2]

ThresholdOk(v) == 0 < v[1] /\ v[1] <= v[2]

\* lines 68-76, one pass of the loop on one entry
SupportPrompt ==
    /\ pc = "support"
    /\ \E entry \in Entries :
        /\ prompts' = prompts + 1
        /\ IF FloatParses(entry)
           THEN /\ min_support' = FloatOf(entry)
                /\ IF ThresholdOk(min_support')
                   THEN /\ pc' = "confidence"
                        /\ Emit(<<<<"prompt_support">>>>)
                        /\ UNCHANGED retries
                   ELSE /\ retries < MaxRetries
                        /\ retries' = retries + 1
                        /\ Emit(<<<<"prompt_support">>, <<"support_between_0_and_1">>>>)
                        /\ UNCHANGED pc
           ELSE /\ retries < MaxRetries
                /\ retries' = retries + 1
                /\ Emit(<<<<"prompt_support">>, <<"invalid_enter_decimal">>>>)
                /\ UNCHANGED <<pc, min_support>>
    /\ UNCHANGED <<fs_input_exists, fs_listing, fs_results_dir, created_results,
                   written, csv_reads, exit_status, available_datasets, choice,
                   selected_dataset, min_confidence, transactions, df_onehot,
                   apriori_itemsets, apriori_rules, fpg_itemsets, fpg_rules,
                   top_n, prefix, final_rules>>

\* lines 78-86, one pass of the loop on one entry
ConfidencePrompt ==
    /\ pc = "confidence"
    /\ \E entry \in Entries :
        /\ prompts' = prompts + 1
        /\ IF FloatParses(entry)
           THEN /\ min_confidence' = FloatOf(entry)
                /\ IF ThresholdOk(min_confidence')
                   THEN /\ pc' = "load"
                        /\ Emit(<<<<"prompt_confidence">>>>)
                        /\ UNCHANGED retries
                   ELSE /\ retries < MaxRetries
                        /\ retries' = retries + 1
                        /\ Emit(<<<<"prompt_confidence">>,
                                   <<"confidence_between_0_and_1">>>>)
                        /\ UNCHANGED pc
           ELSE /\ retries < MaxRetries
                /\ retries' = retries + 1
                /\ Emit(<<<<"prompt_confidence">>, <<"invalid_enter_decimal">>>>)
                /\ UNCHANGED <<pc, min_confidence>>
    /\ UNCHANGED <<fs_input_exists, fs_listing, fs_results_dir, created_results,
                   written, csv_reads, exit_status, available_datasets, choice,
                   selected_dataset, min_support, transactions, df_onehot,
                   apriori_itemsets, apriori_rules, fpg_itemsets, fpg_rules,
                   top_n, prefix, final_rules>>

\* the transactions of line 98
Transactions(column) ==
    [i \in 1..Len(column) |-> SeqToSet(Split(column[i], <<",", " ">>))]

\* lines 91-99: the summary, pd.read_csv and the encoding; a file without an
\* ItemsPurchased column of strings ends the run with a traceback
LoadDataset ==
    /\ pc = "load"
    /\ csv_reads' = csv_reads \cup {selected_dataset}
    /\ \/ /\ Emit(<<<<"summary", selected_dataset, min_support, min_confidence>>,
                    <<"traceback">>>>)
          /\ Exit(1)
          /\ UNCHANGED <<transactions, df_onehot>>
       \/ \E column \in Columns :
            /\ Emit(<<<<"summary", selected_dataset, min_support, min_confidence>>>>)
            /\ transactions' = Transactions(column)
            /\ df_onehot' = transactions_to_df(transactions')
            /\ pc' = "mine"
            /\ UNCHANGED exit_status
    /\ UNCHANGED <<fs_input_exists, fs_listing, fs_results_dir, created_results,
                   written, prompts, retries, available_datasets, choice,
                   selected_dataset, min_support, min_confidence,
                   apriori_itemsets, apriori_rules, fpg_itemsets, fpg_rules,
                   top_n, prefix, final_rules>>

\* lines 104-112; association_rules raising ends the run with a traceback
Mine ==
    /\ pc = "mine"
    /\ apriori_itemsets' = apriori(df_onehot, min_support)
    /\ IF RulesRaise(apriori_itemsets')
       THEN /\ Emit(<<<<"running">>, <<"traceback">>>>)
            /\ Exit(1)
            /\ UNCHANGED <<apriori_rules, fpg_itemsets, fpg_rules>>
       ELSE /\ apriori_rules' = association_rules(apriori_itemsets', min_confidence)
            /\ fpg_itemsets' = fpgrowth(df_onehot, min_support)
            /\ IF RulesRaise(fpg_itemsets')
               THEN /\ Emit(<<<<"running">>, <<"traceback">>>>)
                    /\ Exit(1)
                    /\ UNCHANGED fpg_rules
               ELSE /\ fpg_rules' = association_rules(fpg_itemsets', min_confidence)
                    /\ Emit(<<<<"running">>>>)
                    /\ pc' = "display"
                    /\ UNCHANGED exit_status
    /\ UNCHANGED <<fs_input_exists, fs_listing, fs_results_dir, created_results,
                   written, csv_reads, prompts, retries, available_datasets,
                   choice, selected_dataset, min_support, min_confidence,
                   transactions, df_onehot, top_n, prefix, final_rules>>

\* lines 138-145
DisplayResults ==
    /\ pc = "display"
    /\ Emit(<<<<"apriori_preview">>>>
            \o display_top_itemsets(apriori_itemsets, "Table Apriori", top_n,
                                    Len(df_onehot.rows))
            \o display_rules(apriori_rules)
            \o <<<<"fpgrowth_preview">>>>
            \o display_top_itemsets(fpg_itemsets, "Table FP-Growth", top_n,
                                    Len(df_onehot.rows))
            \o display_rules(fpg_rules))
    /\ pc' = "save"
    /\ UNCHANGED <<fs_input_exists, fs_listing, fs_results_dir, created_results,
                   written, csv_reads, prompts, retries, exit_status,
                   available_datasets, choice, selected_dataset, min_support,
                   min_confidence, transactions, df_onehot, apriori_itemsets,
                   apriori_rules, fpg_itemsets, fpg_rules, top_n, prefix,
                   final_rules>>

\* line 149
Prefix(name) == Replace(name, DotCsv, <<>>)

Suffixes ==
    <<"_apriori_itemsets.csv", "_apriori_rules.csv",
      "_fpgrowth_itemsets.csv", "_fpgrowth_rules.csv">>

\* the four names of lines 150-153
OutputNames(pre) == [i \in 1..Len(Suffixes) |-> Append(pre, Suffixes[i])]

\* lines 149-160
SaveResults ==
    /\ pc = "save"
    /\ prefix' = Prefix(selected_dataset)
    /\ written' = written \cup SeqToSet(OutputNames(prefix'))
    /\ Emit(<<<<"results_saved_in", OutputDir>>, <<"files_generated">>>> \o
            [i \in 1..Len(Suffixes) |-> <<"file", OutputNames(prefix')[i]>>])
    /\ pc' = "final"
    /\ UNCHANGED <<fs_input_exists, fs_listing, fs_results_dir, created_results,
                   csv_reads, prompts, retries, exit_status, available_datasets,
                   choice, selected_dataset, min_support, min_confidence,
                   transactions, df_onehot, apriori_itemsets, apriori_rules,
                   fpg_itemsets, fpg_rules, top_n, final_rules>>

\* lines 163-178, then the script ends
FinalRules ==
    /\ pc = "final"
    /\ final_rules' = MergeRules(apriori_rules, fpg_rules)
    /\ Emit(<<<<"final_rules">>>> \o PrintMerged(final_rules')
            \o <<<<"analysis_complete">>>>)
    /\ Exit(0)
    /\ UNCHANGED <<fs_input_exists, fs_listing, fs_results_dir, created_results,
                   written, csv_reads, prompts, retries, available_datasets,
                   choice, selected_dataset, min_support, min_confidence,
                   transactions, df_onehot, apriori_itemsets, apriori_rules,
                   fpg_itemsets, fpg_rules, top_n, prefix>>

(***************************************************************************)
(* A run of the script.                                                    *)
(***************************************************************************)
NoFrame == [columns |-> <<>>, rows |-> <<>>]

\* values of the script's variables before they are assigned
Unassigned ==
    /\ available_datasets = <<>>
    /\ choice = 0
    /\ selected_dataset = <<>>
    /\ min_support = <<0, 1>>
    /\ min_confidence = <<0, 1>>
    /\ transactions = <<>>
    /\ df_onehot = NoFrame
    /\ apriori_itemsets = <<>>
    /\ apriori_rules = <<>>
    /\ fpg_itemsets = <<>>
    /\ fpg_rules = <<>>
    /\ prefix = <<>>
    /\ final_rules = <<>>

Fresh ==
    /\ written = {}
    /\ csv_reads = {}
    /\ out = <<>>
    /\ prompts = 0
    /\ retries = 0
    /\ exit_status = -1
    /\ created_results = FALSE

Init ==
    /\ pc = "start"
    /\ fs_input_exists \in BOOLEAN
    /\ fs_listing \in (IF fs_input_exists THEN Listings ELSE {<<>>})
    /\ fs_results_dir \in BOOLEAN
    /\ top_n = DefaultTopN
    /\ Fresh
    /\ Unassigned

Next ==
    \/ FolderSetup
    \/ CheckInputDir
    \/ ListDatasets
    \/ SelectDataset
    \/ SupportPrompt
    \/ ConfidencePrompt
    \/ LoadDataset
    \/ Mine
    \/ DisplayResults
    \/ SaveResults
    \/ FinalRules

Spec == Init /\ [][Next]_vars

(***************************************************************************)
(* transactions_to_df on its own: any sequence of at most MaxTx            *)
(* transactions over three items, the empty transaction included.          *)
(***************************************************************************)
MaxTx == 3

ItemUniverse == {<<"A">>, <<"B">>, <<"A", "B">>}

SeqsUpTo(S, n) == UNION {[1..k -> S] : k \in 0..n}

InitEncoder ==
    /\ pc = "encode"
    /\ fs_input_exists = TRUE
    /\ fs_listing = <<>>
    /\ fs_results_dir = TRUE
    /\ top_n = DefaultTopN
    /\ Fresh
    /\ available_datasets = <<>>
    /\ choice = 0
    /\ selected_dataset = <<>>
    /\ min_support = <<0, 1>>
    /\ min_confidence = <<0, 1>>
    /\ transactions \in SeqsUpTo(SUBSET ItemUniverse, MaxTx)
    /\ df_onehot = NoFrame
    /\ apriori_itemsets = <<>>
    /\ apriori_rules = <<>>
    /\ fpg_itemsets = <<>>
    /\ fpg_rules = <<>>
    /\ prefix = <<>>
    /\ final_rules = <<>>

\* line 99
Encode ==
    /\ pc = "encode"
    /\ df_onehot' = transactions_to_df(transactions)
    /\ pc' = "encoded"
    /\ UNCHANGED <<fs_input_exists, fs_listing, fs_results_dir, created_results,
                   written, csv_reads, out, prompts, retries, exit_status,
                   available_datasets, choice, selected_dataset, min_support,
                   min_confidence, transactions, apriori_itemsets,
                   apriori_rules, fpg_itemsets, fpg_rules, top_n, prefix,
                   final_rules>>

NextEncoder == Encode

SpecEncoder == InitEncoder /\ [][NextEncoder]_vars

(***************************************************************************)
(* The merge of lines 163-178 on its own: any two rule sequences of at     *)
(* most MaxRules records, the same pair possibly carried with different    *)
(* confidences, within a sequence or across the two.                       *)
(***************************************************************************)
MaxRules == 2

RuleUniverse ==
    {[antecedents |-> p[1], consequents |-> p[2], confidence |-> c] :
        p \in {<<{<<"A">>}, {<<"B">>}>>, <<{<<"B">>}, {<<"A">>}>>},
        c \in {<<1, 2>>, <<1, 1>>}}

InitMerge ==
    /\ pc = "final"
    /\ fs_input_exists = TRUE
    /\ fs_listing = <<>>
    /\ fs_results_dir = TRUE
    /\ top_n = DefaultTopN
    /\ Fresh
    /\ available_datasets = <<>>
    /\ choice = 0
    /\ selected_dataset = <<>>
    /\ min_support = <<0, 1>>
    /\ min_confidence = <<0, 1>>
    /\ transactions = <<>>
    /\ df_onehot = NoFrame
    /\ apriori_itemsets = <<>>
    /\ apriori_rules \in SeqsUpTo(RuleUniverse, MaxRules)
    /\ fpg_itemsets = <<>>
    /\ fpg_rules \in SeqsUpTo(RuleUniverse, MaxRules)
    /\ prefix = <<>>
    /\ final_rules = <<>>

NextMerge == FinalRules

SpecMerge == InitMerge /\ [][NextMerge]_vars

(***************************************************************************)
(* The preview of lines 138-145 on its own, on datasets of up to MaxRows   *)
(* rows: ab rows "A, B", then a rows "A", then rows "B", mined with a      *)
(* minimum support that every item of the data reaches.                    *)
(***************************************************************************)
MaxRows == 22

Dataset(n, ab, a) ==
    [i \in 1..n |-> IF i <= ab THEN CellAB ELSE IF i <= ab + a THEN CellA ELSE CellB]

LowSupport == <<1, 100>>

InitDisplay ==
    /\ pc = "display"
    /\ fs_input_exists = TRUE
    /\ fs_listing = <<>>
    /\ fs_results_dir = TRUE
    /\ top_n \in {1, DefaultTopN}
    /\ Fresh
    /\ available_datasets = <<>>
    /\ choice = 0
    /\ selected_dataset = <<>>
    /\ min_support = LowSupport
    /\ min_confidence = <<1, 1>>
    /\ \E n \in 1..MaxRows : \E ab \in 0..n : \E a \in 0..(n - ab) :
          transactions = Transactions(Dataset(n, ab, a))
    /\ df_onehot = transactions_to_df(transactions)
    /\ apriori_itemsets = apriori(df_onehot, min_support)
    /\ apriori_rules = association_rules(apriori_itemsets, min_confidence)
    /\ fpg_itemsets = fpgrowth(df_onehot, min_support)
    /\ fpg_rules = association_rules(fpg_itemsets, min_confidence)
    /\ prefix = <<>>
    /\ final_rules = <<>>

NextDisplay == DisplayResults

SpecDisplay == InitDisplay /\ [][NextDisplay]_vars

(***************************************************************************)
(* Properties.                                                             *)
(***************************************************************************)
Printed(tag) == \E i \in 1..Len(out) : out[i][1] = tag

Times(tag) == Cardinality({i \in 1..Len(out) : out[i][1] = tag})

NoCsvIn(listing) == \A i \in 1..Len(listing) : ~EndsWith(listing[i], DotCsv)

UnitInterval(v) == 0 < v[1] /\ v[1] <= v[2]

\* C1: with the input directory missing, the run ends with exit status 1
\* after printing the error that names the missing path, and it never
\* lists datasets, prompts, reads a dataset or writes a file.
C1_MissingInputDir ==
    ~fs_input_exists =>
        /\ pc \in {"start", "check_input", "exited"}
        /\ prompts = 0
        /\ written = {}
        /\ csv_reads = {}
        /\ ~Printed("available_header")
        /\ ~Printed("dataset")
        /\ pc # "exited" => out = <<>> /\ exit_status = -1
        /\ pc = "exited" =>
              /\ exit_status = 1
              /\ out = <<<<"error_not_found", InputDir>>, <<"hint_same_directory">>>>

C1_Witness == ~fs_input_exists /\ pc = "exited" /\ exit_status = 1

\* C2: with an input directory that holds no name ending in ".csv", the
\* run reports it and ends with exit status 1 without a prompt; and
\* whenever a prompt has been issued, at least one dataset was listed.
C2_NoDatasets ==
    /\ (fs_input_exists /\ NoCsvIn(fs_listing)) =>
          /\ pc \in {"start", "check_input", "list", "exited"}
          /\ prompts = 0
          /\ pc = "exited" => exit_status = 1 /\ out = <<<<"no_csv_datasets">>>>
    /\ prompts >= 1 =>
          /\ Len(available_datasets) >= 1
          /\ \A i \in 1..Len(available_datasets) : EndsWith(available_datasets[i], DotCsv)

C2_Witness ==
    /\ fs_input_exists /\ fs_listing # <<>> /\ NoCsvIn(fs_listing)
    /\ pc = "exited" /\ exit_status = 1

\* C3: a pass of the dataset loop either leaves the loop, and then the
\* entry was an integer in 1..N and selected_dataset is that element of
\* the list, or prints a corrective message and stays in the loop with the
\* run alive: the range message exactly when the integer is outside 1..N.
C3_DatasetLoop ==
    [][pc = "select" =>
        LET n == Len(available_datasets) IN
        /\ prompts' = prompts + 1
        /\ exit_status' = -1
        /\ available_datasets' = available_datasets
        /\ \/ /\ pc' = "support"
              /\ choice' \in 1..n
              /\ selected_dataset' = available_datasets[choice']
              /\ out' = out \o <<<<"prompt_dataset">>>>
           \/ /\ pc' = "select"
              /\ choice' \notin 1..n
              /\ selected_dataset' = selected_dataset
              /\ out' = out \o <<<<"prompt_dataset">>, <<"enter_between_1_and", n>>>>
           \/ /\ pc' = "select"
              /\ choice' = choice
              /\ selected_dataset' = selected_dataset
              /\ out' = out \o <<<<"prompt_dataset">>, <<"invalid_enter_number">>>>]_vars

C3_Witness ==
    /\ pc = "support"
    /\ Printed("enter_between_1_and")
    /\ Printed("invalid_enter_number")
    /\ Len(available_datasets) = 2
    /\ selected_dataset = available_datasets[2]

\* C4: a pass of the support loop, or of the confidence loop, leaves that
\* loop only with a value v, 0 < v <= 1, and otherwise prints a corrective
\* message and stays in the same loop: the range message exactly when the
\* number is outside (0, 1].  The confidence loop runs with an accepted
\* support, and neither loop changes what was accepted before it.
C4_ThresholdLoops ==
    [][/\ pc = "support" =>
            /\ prompts' = prompts + 1
            /\ exit_status' = -1
            /\ choice' = choice /\ selected_dataset' = selected_dataset
            /\ \/ /\ pc' = "confidence"
                  /\ UnitInterval(min_support')
                  /\ out' = out \o <<<<"prompt_support">>>>
               \/ /\ pc' = "support"
                  /\ ~UnitInterval(min_support')
                  /\ out' = out \o <<<<"prompt_support">>, <<"support_between_0_and_1">>>>
               \/ /\ pc' = "support"
                  /\ min_support' = min_support
                  /\ out' = out \o <<<<"prompt_support">>, <<"invalid_enter_decimal">>>>
       /\ pc = "confidence" =>
            /\ prompts' = prompts + 1
            /\ exit_status' = -1
            /\ UnitInterval(min_support)
            /\ min_support' = min_support
            /\ choice' = choice /\ selected_dataset' = selected_dataset
            /\ \/ /\ pc' = "load"
                  /\ UnitInterval(min_confidence')
                  /\ out' = out \o <<<<"prompt_confidence">>>>
               \/ /\ pc' = "confidence"
                  /\ ~UnitInterval(min_confidence')
                  /\ out' = out \o <<<<"prompt_confidence">>,
                                     <<"confidence_between_0_and_1">>>>
               \/ /\ pc' = "confidence"
                  /\ min_confidence' = min_confidence
                  /\ out' = out \o <<<<"prompt_confidence">>, <<"invalid_enter_decimal">>>>]_vars

C4_Witness ==
    /\ pc = "load"
    /\ min_support = <<1, 1>>
    /\ min_confidence = <<5, 10>>
    /\ Printed("support_between_0_and_1")
    /\ Printed("confidence_between_0_and_1")

RECURSIVE SumSeq(_)
SumSeq(q) == IF q = <<>> THEN 0 ELSE q[1] + SumSeq(Tail(q))

\* C5: the encoded table has one row per transaction, in order, and one
\* column per distinct item, in sorted order; a cell is 1 when the row's
\* transaction holds the column's item and 0 otherwise, so a row sums to
\* the size of its transaction and an empty transaction gives a zero row.
C5_Encoding ==
    pc = "encoded" =>
        LET cols == df_onehot.columns
            rows == df_onehot.rows
        IN  /\ Len(rows) = Len(transactions)
            /\ SeqToSet(cols) = UNION SeqToSet(transactions)
            /\ Len(cols) = Cardinality(UNION SeqToSet(transactions))
            /\ \A i, j \in 1..Len(cols) : i < j => StrLess(cols[i], cols[j])
            /\ \A i \in 1..Len(rows) :
                  /\ Len(rows[i]) = Len(cols)
                  /\ \A j \in 1..Len(cols) :
                        rows[i][j] = IF cols[j] \in transactions[i] THEN 1 ELSE 0
                  /\ SumSeq(rows[i]) = Cardinality(transactions[i])
                  /\ transactions[i] = {} => \A j \in 1..Len(cols) : rows[i][j] = 0

C5_Witness ==
    /\ pc = "encoded"
    /\ Len(df_onehot.columns) = 3
    /\ \E i, j \in 1..Len(transactions) :
          /\ transactions[i] = {}
          /\ Cardinality(transactions[j]) = 2
          /\ SumSeq(df_onehot.rows[i]) = 0
          /\ SumSeq(df_onehot.rows[j]) = 2

Concatenated == apriori_rules \o fpg_rules

\* positions of the concatenation that carry their pair for the first time
FirstPositions ==
    {j \in 1..Len(Concatenated) :
        \A k \in 1..(j - 1) : RuleKey(Concatenated[k]) # RuleKey(Concatenated[j])}

NthFirst(i) ==
    CHOOSE j \in FirstPositions : Cardinality({k \in FirstPositions : k < j}) = i - 1

MergedLines == SelectSeq(out, LAMBDA e : e[1] = "merged_rule")

\* C6: the merged rules are the records that carry their (antecedent,
\* consequent) pair first in the concatenation Apriori then FP-Growth, one
\* per pair, in concatenation order, and they are printed numbered 1..k.
C6_Merge ==
    (pc = "exited" /\ exit_status = 0) =>
        /\ Len(final_rules) = Cardinality(FirstPositions)
        /\ \A i \in 1..Len(final_rules) : final_rules[i] = Concatenated[NthFirst(i)]
        /\ {RuleKey(final_rules[i]) : i \in 1..Len(final_rules)}
              = {RuleKey(Concatenated[j]) : j \in 1..Len(Concatenated)}
        /\ \A i, j \in 1..Len(final_rules) :
              RuleKey(final_rules[i]) = RuleKey(final_rules[j]) => i = j
        /\ Len(MergedLines) = Len(final_rules)
        /\ \A i \in 1..Len(final_rules) :
              MergedLines[i] = <<"merged_rule", i, final_rules[i].antecedents,
                                 final_rules[i].consequents, final_rules[i].confidence>>

C6_Witness ==
    /\ pc = "exited"
    /\ Len(final_rules) = 2
    /\ \E i \in 1..Len(apriori_rules) : \E j \in 1..Len(fpg_rules) :
          /\ RuleKey(apriori_rules[i]) = RuleKey(fpg_rules[j])
          /\ apriori_rules[i].confidence # fpg_rules[j].confidence
          /\ final_rules[1] = apriori_rules[i]

\* C7: the four files written are named after the selected dataset's
\* filename minus exactly its trailing ".csv".
C7_OutputNames ==
    pc = "final" =>
        written = SeqToSet(OutputNames(StripSuffix(selected_dataset, DotCsv)))

ItemsetLines == SelectSeq(out, LAMBDA e : e[1] = "itemset")

ClaimedLines(itemsets_df) ==
    [i \in 1..Min(top_n, Len(itemsets_df)) |->
        <<"itemset", itemsets_df[i].itemsets,
          Round(FMul(FDiv(itemsets_df[i].support[1], itemsets_df[i].support[2]),
                     Len(df_onehot.rows)))>>]

\* C8: display_top_itemsets prints the first top_n records at most, in
\* order, each with the count round(support * rows), which is the number
\* of transactions that contain the itemset.
C8_TopItemsets ==
    pc = "save" =>
        /\ ItemsetLines = ClaimedLines(apriori_itemsets) \o ClaimedLines(fpg_itemsets)
        /\ \A i \in 1..Len(ItemsetLines) :
              ItemsetLines[i][3] = SupportCount(df_onehot, ItemsetLines[i][2])

\* C9: a run that mined a dataset and got an empty itemset or rule table
\* still ends with exit status 0 after "Analysis complete!", with the four
\* files written and a no-rules notice for every empty rule table.
C9_EmptyResults ==
    (/\ pc = "exited"
     /\ Printed("running")
     /\ \/ apriori_itemsets = <<>> \/ fpg_itemsets = <<>>
        \/ apriori_rules = <<>> \/ fpg_rules = <<>>) =>
        /\ exit_status = 0
        /\ out[Len(out)] = <<"analysis_complete">>
        /\ Cardinality(written) = 4
        /\ Times("no_rules_for_thresholds")
              = (IF apriori_rules = <<>> THEN 1 ELSE 0) + (IF fpg_rules = <<>> THEN 1 ELSE 0)
        /\ final_rules = <<>> => Printed("no_rules_with_thresholds")

\* C10: the results directory exists from the first step on, before the
\* input directory is checked and at the end of every run; a run that
\* fails for a missing or dataset-less input directory writes no file; and
\* files are written only after all three inputs were accepted.
C10_ResultsDir ==
    /\ pc # "start" => fs_results_dir
    /\ (pc = "exited" /\ (~fs_input_exists \/ NoCsvIn(fs_listing))) =>
          /\ exit_status = 1
          /\ written = {}
          /\ csv_reads = {}
    /\ written # {} =>
          /\ prompts >= 3
          /\ choice \in 1..Len(available_datasets)
          /\ selected_dataset = available_datasets[choice]
          /\ UnitInterval(min_support)
          /\ UnitInterval(min_confidence)

C10_Witness ==
    /\ pc = "exited"
    /\ exit_status = 1
    /\ ~fs_input_exists
    /\ created_results
    /\ fs_results_dir
    /\ written = {}

====
